---- MODULE Spec2Model ----
(***************************************************************************)
(* Navigation / guidance engine of router_optimizer:                        *)
(*   - geo-math helpers and the instruction generator                       *)
(*     (src/utils/navigation-helpers.ts:1-149), and                         *)
(*   - the NavigationProvider session (same file, lines 209-859) together   *)
(*     with its position sources and timers.                                *)
(*                                                                         *)
(* Geometry.  Every coordinate of the model lies on one meridian            *)
(* (longitude 0), and latitude is counted in units of 1/1000 mile of arc.   *)
(* On a meridian the haversine formula of calculateDistance reduces to      *)
(* R * |dlat|, i.e. to the absolute difference of the two latitude counts   *)
(* (a distance in thousandths of a mile), and calculateBearing reduces to   *)
(* atan2(0, sin(dlat)): 0 degrees going north or staying, 180 going south.  *)
(* Bearings are whole degrees.  Arbitrary pairs of bearings are fed to the  *)
(* maneuver classification in SpecManeuver and to generateTurnInstruction   *)
(* in SpecInstruction.                                                      *)
(* Remaining distances of up to 8 miles are fed to                          *)
(* checkDistanceAnnouncement in SpecAnnounce; SpecTurn runs the session on  *)
(* a route that doubles back, and SpecFair is Spec with every due timer     *)
(* callback eventually run.                                                 *)
(*                                                                         *)
(* Closures.  NavigationProvider is a React function component: every       *)
(* handler reads the useState values of the render it was created in, the   *)
(* setters write the live state, and useRef cells are shared.  A handler    *)
(* therefore takes the render c it closes over as a parameter; reads of     *)
(* state go to c, reads of refs and all writes go to the variables.         *)
(***************************************************************************)
EXTENDS Integers, Sequences, FiniteSets, Bags, TLC

VARIABLES
  \* useState cells of NavigationProvider (lines 210-222)
  isNavigating, activeRoute, origin, destination, currentPosition,
  currentStep, nextStep, remainingDistance, remainingTime, progress,
  voiceEnabled, distanceAlertFrequency,
  \* useRef cells (lines 224-226); watchId holds the render the registered
  \* geolocation callback closes over, or Null.  Time is kept relative to the
  \* present: timeSinceLastAlert is Date.now() - lastDistanceAlert.current
  \* (line 462), saturated at DistanceAlertGap.  Every timer delay of the
  \* program is shorter than one step of the clock (ClockStep), so the clock
  \* only steps when no timer is pending, and pending timers fire in any order
  watchId, lastVoiceAlert, timeSinceLastAlert,
  \* MovementSimulator's interval (movement-simulator.tsx:11): the render its
  \* updateUserPosition closes over, or Null
  simulationRef,
  \* the bag of pending setTimeout callbacks
  timers,
  \* what the last event did: the handler's name (or "advance", the clock) and
  \* the settlement of the promise it returned, the messages it spoke, the
  \* events and toasts it emitted
  lastCall, spoken, events,
  \* observers of the running session (history, not program state): the
  \* off-route alerts spoken in the current run of off-route position updates,
  \* whether an off-route alert was spoken since the last start, stop or
  \* recalculation, the arrival alerts spoken and the delayed stops scheduled since the last
  \* start or stop (each counted up to 2), the time since a distance alert was
  \* last spoken (up to DistanceAlertGap, which also stands for none at all),
  \* the "In 0.2 miles" and "In half a mile" alerts spoken for the step that
  \* is the next step now (each counted up to 2), and the number of events
  offRouteAlerts, offRouteAlerted, arrivedAlerts, stopsScheduled,
  sinceDistanceAlert, upcomingAlerts, prepareAlerts, eventCount,
  \* inputs and outputs of the pure functions (SpecManeuver, SpecInstruction,
  \* SpecSteps), and whether the function has been applied to the inputs
  prevBearingIn, bearingIn, maneuverOut, pathIn, stepsOut, called,
  distanceIn, instructionOut,
  \* the routes the route panel offers for startNavigation, each with its
  \* origin and destination (fixed through a behaviour)
  routesOffered

navVars == <<isNavigating, activeRoute, origin, destination, currentPosition,
             currentStep, nextStep, remainingDistance, remainingTime, progress,
             voiceEnabled, distanceAlertFrequency, watchId, lastVoiceAlert,
             timeSinceLastAlert, simulationRef, timers, lastCall, spoken,
             events, offRouteAlerts, offRouteAlerted, arrivedAlerts, stopsScheduled,
             sinceDistanceAlert, upcomingAlerts, prepareAlerts, eventCount>>
fnVars == <<prevBearingIn, bearingIn, maneuverOut, pathIn, stepsOut, called,
            distanceIn, instructionOut>>
vars == <<navVars, fnVars, routesOffered>>

-----------------------------------------------------------------------------
(* Values *)

Null == <<>>

\* a JS number that may be NaN (progress)
Num(n) == [nan |-> FALSE, v |-> n]
NaN == [nan |-> TRUE, v |-> 0]

\* F applied to the value of v
With(v, F(_)) == CHOOSE r \in {F(x) : x \in {v}} : TRUE

Abs(x) == IF x < 0 THEN -x ELSE x
Min(a, b) == IF a < b THEN a ELSE b
Max(a, b) == IF a > b THEN a ELSE b

\* JS remainder: the sign of the result is the sign of the dividend
JsRem(a, n) == IF a >= 0 THEN a % n ELSE -((-a) % n)

\* Math.round(num / den) for num >= 0, den > 0
RoundDiv(num, den) == (2 * num + den) \div (2 * den)

\* (d miles).toFixed(1), d in thousandths of a mile
ToFixed1(d) ==
  LET t == RoundDiv(d, 100)
  IN  ToString(t \div 10) \o "." \o ToString(t % 10)

-----------------------------------------------------------------------------
(* Geo-math utilities *)

Directions ==
  <<"north", "northeast", "east", "southeast", "south", "southwest", "west", "northwest">>

getDirectionFromBearing(bearing) ==
  Directions[(RoundDiv(bearing, 45) % 8) + 1]

calculateBearing(point1, point2) ==
  IF point2[2] < point1[2] THEN 180 ELSE 0

calculateDistance(point1, point2) ==
  Abs(point2[2] - point1[2])

-----------------------------------------------------------------------------
(* Instruction generator *)

\* line 59 alone: the difference of the bearings as it is, not folded
TurnAngleUnfolded(prevBearing, currentBearing) ==
  currentBearing - prevBearing

\* the angle of generateTurnInstruction, folded once into [-180, 180]
TurnAngle(prevBearing, currentBearing) ==
  LET a == currentBearing - prevBearing
      b == IF a < -180 THEN a + 360 ELSE a
  IN  IF b > 180 THEN b - 360 ELSE b

generateTurnInstruction(prevBearing, currentBearing, distance) ==
  IF prevBearing = Null
  THEN "Head " \o getDirectionFromBearing(currentBearing) \o " for "
         \o ToFixed1(distance) \o " miles"
  ELSE
    LET angle == TurnAngle(prevBearing[1], currentBearing)
        turnDirection ==
          IF angle >= 20 /\ angle < 60 THEN "slight right"
          ELSE IF angle >= 60 /\ angle < 120 THEN "right"
          ELSE IF angle >= 120 THEN "sharp right"
          ELSE IF angle <= -20 /\ angle > -60 THEN "slight left"
          ELSE IF angle <= -60 /\ angle > -120 THEN "left"
          ELSE "sharp left"
    IN  IF Abs(angle) < 20
        THEN "Continue straight for " \o ToFixed1(distance) \o " miles"
        ELSE "Turn " \o turnDirection \o " and continue for "
               \o ToFixed1(distance) \o " miles"

normalizedAngle(prevBearing, bearing) ==
  JsRem((bearing - prevBearing) + 180, 360) - 180

\* lines 112-121: the if / else-if chain in the order it is written
ManeuverOf(prevBearing, bearing) ==
  LET n == normalizedAngle(prevBearing, bearing)
  IN  IF n > 30 THEN "right"
      ELSE IF n < -30 THEN "left"
      ELSE IF n > 10 THEN "slight-right"
      ELSE IF n < -10 THEN "slight-left"
      ELSE IF n > 100 THEN "sharp-right"
      ELSE IF n < -100 THEN "sharp-left"
      ELSE IF Abs(n) > 170 THEN "uturn"
      ELSE "straight"

\* the step pushed for segment i (lines 99-134); the previous bearing is that
\* of segment i-1, null for the first segment
TravelStep(path, i) ==
  LET bearing == calculateBearing(path[i], path[i + 1])
      distance == calculateDistance(path[i], path[i + 1])
      prevBearing ==
        IF i = 1 THEN Null ELSE <<calculateBearing(path[i - 1], path[i])>>
  IN  [ instruction |-> generateTurnInstruction(prevBearing, bearing, distance),
        distance    |-> ToFixed1(distance) \o " miles",
        coordinates |-> path[i],
        bearing     |-> bearing,
        maneuver    |-> IF prevBearing = Null THEN "straight"
                        ELSE ManeuverOf(prevBearing[1], bearing) ]

ArriveStep(path) ==
  [ instruction |-> "Arrive at your destination",
    distance    |-> "0 miles",
    coordinates |-> path[Len(path)],
    bearing     |-> calculateBearing(path[Len(path) - 1], path[Len(path)]),
    maneuver    |-> "arrive" ]

\* the arrival step left out
StepsWithoutArrival(path) ==
  IF Len(path) < 2 THEN <<>>
  ELSE [i \in 1..(Len(path) - 1) |-> TravelStep(path, i)]

generateDetailedNavigationSteps(path) ==
  IF Len(path) < 2 THEN <<>>
  ELSE [i \in 1..(Len(path) - 1) |-> TravelStep(path, i)] \o <<ArriveStep(path)>>

\* lines 740-750: the field-by-field copy of the detailed steps
generateNavigationSteps(path) ==
  With(generateDetailedNavigationSteps(path), LAMBDA detailedSteps :
    <<>> \o [i \in DOMAIN detailedSteps |->
      With(detailedSteps[i], LAMBDA step :
        [ instruction |-> step.instruction,
          distance    |-> step.distance,
          coordinates |-> step.coordinates,
          maneuver    |-> step.maneuver,
          bearing     |-> step.bearing ])])

-----------------------------------------------------------------------------
(* Bounds and inputs *)

MaxEvents == 5        \* events explored from the mount of the provider
MaxTimers == 2        \* pending setTimeout callbacks
MaxTenths == 20       \* largest route total, in tenths of a mile, that is parsed
MaxMins == 10         \* largest route duration, in minutes, that is parsed
BearingStep == 5      \* spacing of the sampled bearings, degrees
MaxPathLen == 3       \* longest path given to generateDetailedNavigationSteps
MaxRemaining == 400   \* largest remaining distance announced, in fiftieths of a mile

P(y) == <<0, y>>

\* positions reported by the position sources, latitude in 1/1000 mile
Positions == {P(200), P(400), P(520), P(1000)}

\* points of the paths given to generateDetailedNavigationSteps
PathPoints == Positions \cup {P(0)}

Loc(n, y) == [name |-> n, coordinates |-> P(y)]

\* routes as src/app/api/routes/route.ts:50-59 builds them: origin, the point
\* 40% of the way, destination; total = direct distance, duration = 2 min/mile
RouteA ==
  [ name |-> "Fastest Route", duration |-> "2 mins", distance |-> "1.0 miles",
    path |-> <<P(0), P(400), P(1000)>> ]

\* a route whose path is a single point, as startNavigation accepts it
RouteShort ==
  [ name |-> "Fastest Route", duration |-> "0 mins", distance |-> "0.0 miles",
    path |-> <<P(1000)>> ]

\* a route that doubles back: north for 0.12 miles, a half turn at [0, 0.52],
\* south to [0, 0.2], a half turn again and north to the destination
RouteTurn ==
  [ name |-> "Scenic Route", duration |-> "1 mins", distance |-> "0.6 miles",
    path |-> <<P(400), P(520), P(200), P(1000)>> ]

StartInputs ==
  { [route |-> RouteA, origin |-> Loc("Home", 0), destination |-> Loc("Work", 1000)],
    [route |-> RouteShort, origin |-> Loc("Work", 1000),
     destination |-> Loc("Work", 1000)] }

TurnInputs ==
  { [route |-> RouteTurn, origin |-> Loc("Park", 400),
     destination |-> Loc("Work", 1000)] }

Frequencies == {"off", "low", "medium", "high"}

-----------------------------------------------------------------------------
(* Program constants *)

ArrivalRadius == 50         \* 0.05 miles
OffRouteRadius == 100       \* 0.1 miles
ArrivalStopDelay == 5000
AutoRecalcDelay == 3000
RecalcLatency == 1500
DistanceAlertGap == 30000
AlertTolerance == 50        \* 0.05 miles
UpcomingTurnRadius == 200   \* 0.2 miles
PrepareTurnRadius == 500    \* 0.5 miles

\* ms the clock advances at a time
ClockStep == DistanceAlertGap \div 2

-----------------------------------------------------------------------------
(* Parsing of the formatted route totals *)

\* Number.parseFloat(distance.replace(" miles", "")), in tenths of a mile
MilesText == [t \in 0..MaxTenths |-> ToFixed1(t * 100) \o " miles"]
ParseMiles(s) ==
  CHOOSE t \in 0..MaxTenths : MilesText[t] = s

\* Number.parseInt(duration.replace(" mins", ""))
MinsText == [m \in 0..MaxMins |-> ToString(m) \o " mins"]
ParseMins(s) ==
  CHOOSE m \in 0..MaxMins : MinsText[m] = s

-----------------------------------------------------------------------------
(* The render a handler closes over *)

Render ==
  [ isNavigating |-> isNavigating, activeRoute |-> activeRoute,
    destination |-> destination, currentPosition |-> currentPosition,
    currentStep |-> currentStep, nextStep |-> nextStep,
    voiceEnabled |-> voiceEnabled,
    distanceAlertFrequency |-> distanceAlertFrequency ]

\* the effects a handler has accumulated so far: refs, state it has set,
\* speech, events and timers
\* (ts: the timers still pending when the handler starts)
Effects(ts) ==
  [ lastVoiceAlert |-> lastVoiceAlert, timeSinceLastAlert |-> timeSinceLastAlert,
    currentStep |-> currentStep, nextStep |-> nextStep,
    spoken |-> <<>>, events |-> <<>>, timers |-> ts ]

speak(e, message) == [e EXCEPT !.spoken = Append(@, message)]
emit(e, event) == [e EXCEPT !.events = Append(@, event)]
\* what a callback reads of the render it closes over: stopNavigation reads
\* voiceEnabled, recalculateRoute also currentPosition and destination, a
\* position callback everything, but nothing more once isNavigating or
\* activeRoute is falsy
Captured(kind, c) ==
  CASE kind = "stopNavigation" -> [voiceEnabled |-> c.voiceEnabled]
    [] kind \in {"recalculateRoute", "recalculateResume"} ->
         [ voiceEnabled |-> c.voiceEnabled, currentPosition |-> c.currentPosition,
           destination |-> c.destination ]
    [] OTHER ->
         IF c.isNavigating /\ c.activeRoute # Null THEN c
         ELSE [isNavigating |-> FALSE, activeRoute |-> Null]

setTimeout(e, kind, c, delay) ==
  [e EXCEPT !.timers = @ (+) SetToBag({[kind |-> kind, c |-> Captured(kind, c)]})]

-----------------------------------------------------------------------------
(* Guidance handlers.  c is the render the handler closes over, e the effects *)
(* accumulated so far in the running event.                                 *)

\* lines 539-548: 1-based index of the first path point at minimum distance
\* (1 for an empty path, where the loop leaves closestPointIndex at 0)
ClosestPointIndex(routePath, position) ==
  IF Len(routePath) = 0 THEN 1
  ELSE CHOOSE k \in 1..Len(routePath) :
         /\ \A j \in 1..Len(routePath) :
              calculateDistance(position, routePath[k])
                <= calculateDistance(position, routePath[j])
         /\ \A j \in 1..(k - 1) :
              calculateDistance(position, routePath[k])
                < calculateDistance(position, routePath[j])

\* lines 591-598 (Infinity for an empty path)
MinDistanceExceeds(routePath, position, radius) ==
  \A j \in 1..Len(routePath) : calculateDistance(position, routePath[j]) > radius

IsTurn(maneuver) == maneuver # "straight" /\ maneuver # "arrive"

\* an advancement that moves the held next step up instead of generating the
\* steps of the remaining path
updateNavigationStepMovesUp(c, position, e) ==
  IF c.activeRoute = Null \/ c.currentStep = Null \/ c.nextStep = Null THEN e
  ELSE
    LET routePath == c.activeRoute.path
        k == ClosestPointIndex(routePath, position)
    IN  IF ~(k > 1 /\ c.currentStep.coordinates = routePath[k - 1]) THEN e
        ELSE
          LET newCurrentStep == c.nextStep
              e1 == [e EXCEPT !.currentStep = newCurrentStep, !.nextStep = Null]
          IN  IF c.voiceEnabled
                 /\ newCurrentStep.instruction # c.currentStep.instruction
              THEN [ speak(e1,
                       IF IsTurn(newCurrentStep.maneuver)
                       THEN "In " \o newCurrentStep.distance \o ", "
                              \o newCurrentStep.instruction
                       ELSE newCurrentStep.instruction)
                     EXCEPT !.lastVoiceAlert = newCurrentStep.instruction ]
              ELSE e1

updateNavigationStep(c, position, e) ==
  IF c.activeRoute = Null \/ c.currentStep = Null THEN e
  ELSE
    LET routePath == c.activeRoute.path
        k == ClosestPointIndex(routePath, position)
    IN  IF ~(k > 1 /\ c.currentStep.coordinates = routePath[k - 1]) THEN e
        ELSE
          With(generateNavigationSteps(SubSeq(routePath, k, Len(routePath))),
               LAMBDA remainingSteps :
            IF Len(remainingSteps) = 0 THEN e
            ELSE
              LET newCurrentStep == remainingSteps[1]
                  newNextStep ==
                    IF Len(remainingSteps) > 1 THEN remainingSteps[2] ELSE Null
                  e1 == [e EXCEPT !.currentStep = newCurrentStep,
                                  !.nextStep = newNextStep]
              IN  IF c.voiceEnabled
                     /\ newCurrentStep.instruction # c.currentStep.instruction
                  THEN [ speak(e1,
                           IF IsTurn(newCurrentStep.maneuver)
                           THEN "In " \o newCurrentStep.distance \o ", "
                                  \o newCurrentStep.instruction
                           ELSE newCurrentStep.instruction)
                         EXCEPT !.lastVoiceAlert = newCurrentStep.instruction ]
                  ELSE e1)

\* a test that accepts only distances at or just above a multiple of m
NearMultipleAbove(d, m) == (d % m) < AlertTolerance

\* |Math.round(d / m) * m - d| < 0.05, d and m in thousandths of a mile
NearMultiple(d, m) ==
  LET r == d % m IN Min(r, m - r) < AlertTolerance

Milestones == <<10000, 5000, 3000, 2000, 1000, 500, 200>>

\* `${milestone}` of lines 492-496
MilestoneText(i) ==
  <<"10 miles", "5 miles", "3 miles", "2 miles", "1 mile", "0.5 miles", "0.2 miles">>[i]

\* the messages checkDistanceAnnouncement can speak (lines 479, 488, 496)
DistanceMessages ==
  {ToFixed1(t * 100) \o " miles remaining to your destination." : t \in 0..MaxTenths}
    \cup {MilestoneText(i) \o " remaining to your destination." :
             i \in 1..Len(Milestones)}

\* the announcement of lines 468-506, without the test of line 465
checkDistanceAnnouncementAnyTime(c, distanceToDestination, e) ==
  IF ~c.voiceEnabled \/ c.distanceAlertFrequency = "off" THEN e
  ELSE
    LET d == distanceToDestination
        hits == {i \in 1..Len(Milestones) : Abs(d - Milestones[i]) < AlertTolerance}
        first == CHOOSE i \in hits : \A j \in hits : i <= j
        shouldAnnounce ==
          CASE c.distanceAlertFrequency = "high" ->
                 NearMultiple(d, 500) \/ (d <= 5000 /\ NearMultiple(d, 1000))
            [] c.distanceAlertFrequency = "medium" ->
                 NearMultiple(d, 1000) \/ (d <= 3000 /\ NearMultiple(d, 500))
            [] OTHER -> hits # {}
        message ==
          IF c.distanceAlertFrequency = "low"
          THEN MilestoneText(first) \o " remaining to your destination."
          ELSE ToFixed1(d) \o " miles remaining to your destination."
    IN  IF shouldAnnounce
        THEN [ speak(e, message) EXCEPT !.timeSinceLastAlert = 0,
                                        !.lastVoiceAlert = "distance" ]
        ELSE e

checkDistanceAnnouncement(c, distanceToDestination, e) ==
  IF ~c.voiceEnabled \/ c.distanceAlertFrequency = "off" THEN e
  ELSE IF e.timeSinceLastAlert < DistanceAlertGap THEN e
  ELSE
    LET d == distanceToDestination
        remaining == ToFixed1(d) \o " miles remaining to your destination."
        hits == {i \in 1..Len(Milestones) : Abs(d - Milestones[i]) < AlertTolerance}
        first == CHOOSE i \in hits : \A j \in hits : i <= j
        shouldAnnounce ==
          CASE c.distanceAlertFrequency = "high" ->
                 NearMultiple(d, 500) \/ (d <= 5000 /\ NearMultiple(d, 1000))
            [] c.distanceAlertFrequency = "medium" ->
                 NearMultiple(d, 1000) \/ (d <= 3000 /\ NearMultiple(d, 500))
            [] OTHER -> hits # {}
        message ==
          IF c.distanceAlertFrequency = "low"
          THEN MilestoneText(first) \o " remaining to your destination."
          ELSE remaining
    IN  IF shouldAnnounce
        THEN [ speak(e, message) EXCEPT !.timeSinceLastAlert = 0,
                                        !.lastVoiceAlert = "distance" ]
        ELSE e

checkUpcomingTurn(c, position, e) ==
  IF \/ ~c.voiceEnabled
     \/ c.currentStep = Null
     \/ c.nextStep = Null
  THEN e
  ELSE IF ~IsTurn(c.nextStep.maneuver) THEN e
  ELSE
    LET distanceToTurn == calculateDistance(position, c.nextStep.coordinates)
        upcoming == "upcoming_" \o c.nextStep.maneuver
        prepare == "prepare_" \o c.nextStep.maneuver
    IN  IF distanceToTurn < UpcomingTurnRadius /\ e.lastVoiceAlert # upcoming
        THEN [ speak(e, "In 0.2 miles, " \o c.nextStep.instruction)
               EXCEPT !.lastVoiceAlert = upcoming ]
        ELSE IF distanceToTurn < PrepareTurnRadius /\ e.lastVoiceAlert # prepare
        THEN [ speak(e, "In half a mile, " \o c.nextStep.instruction)
               EXCEPT !.lastVoiceAlert = prepare ]
        ELSE e

OffRouteMessage == "You appear to be off route. Recalculating."
ArrivedMessage == "You have arrived at your destination."

\* lines 415-439
checkArrival(c, distanceToDestination, e) ==
  IF ~(distanceToDestination < ArrivalRadius) THEN e
  ELSE
    LET e1 == IF c.voiceEnabled /\ e.lastVoiceAlert # "arrived"
              THEN [speak(e, ArrivedMessage) EXCEPT !.lastVoiceAlert = "arrived"]
              ELSE e
    IN  setTimeout(emit(e1, "Arrived!"), "stopNavigation", c, ArrivalStopDelay)

checkIfOffRoute(c, position, e) ==
  IF c.activeRoute = Null THEN e
  ELSE IF ~MinDistanceExceeds(c.activeRoute.path, position, OffRouteRadius) THEN e
  ELSE
    LET e1 == IF c.voiceEnabled /\ e.lastVoiceAlert # "off-route"
              THEN [speak(e, OffRouteMessage) EXCEPT !.lastVoiceAlert = "off-route"]
              ELSE e
    IN  setTimeout(emit(e1, "Off Route"), "recalculateRoute", c, AutoRecalcDelay)

\* lines 396-397: `${Math.max(1, Math.round(totalTime * (d / totalDistance)))} mins`
\* with d in thousandths and totalDistance in tenths of a mile; a zero total
\* makes the quotient Infinity (d > 0) or NaN (d = 0)
RemainingTimeText(totalTime, d, totalDistance) ==
  IF totalDistance = 0
  THEN IF d = 0 \/ totalTime = 0 THEN "NaN mins" ELSE "Infinity mins"
  ELSE ToString(Max(1, RoundDiv(totalTime * d, totalDistance * 100))) \o " mins"

\* line 400: Math.min(100, Math.max(0, 100 - (d / totalDistance) * 100)), in
\* percent rounded up to a whole percent.  0 / 0 is NaN, which Math.max and
\* Math.min hand on; d / 0 is Infinity, which the clamp turns into 0
ProgressPercent(d, totalDistance) ==
  IF totalDistance = 0
  THEN IF d = 0 THEN NaN ELSE Num(0)
  ELSE Num(Min(100, Max(0, 100 - (d \div totalDistance))))

\* lines 387-455; the result carries the three values it sets besides e
updateNavigationProgress(c, position, e) ==
  IF c.activeRoute = Null \/ c.destination = Null
  THEN [ e |-> e, remainingDistance |-> remainingDistance,
         remainingTime |-> remainingTime, progress |-> progress ]
  ELSE
  With(ParseMiles(c.activeRoute.distance), LAMBDA totalDistance :
  With(calculateDistance(position, c.destination.coordinates),
       LAMBDA distanceToDestination :
  With(ParseMins(c.activeRoute.duration), LAMBDA totalTime :
  With(updateNavigationStep(c, position, e), LAMBDA e1 :
  With(checkDistanceAnnouncement(c, distanceToDestination, e1), LAMBDA e2 :
  With(checkUpcomingTurn(c, position, e2), LAMBDA e3 :
  With(checkArrival(c, distanceToDestination, e3), LAMBDA e4 :
  With(checkIfOffRoute(c, position, e4), LAMBDA e5 :
    [ e |-> emit(e5, "navigationUpdated"),
      remainingDistance |-> ToFixed1(distanceToDestination) \o " miles",
      remainingTime |->
        RemainingTimeText(totalTime, distanceToDestination, totalDistance),
      progress |-> ProgressPercent(distanceToDestination, totalDistance) ]))))))))

-----------------------------------------------------------------------------
(* Recalculation *)

\* lines 802-803: origin + (destination - origin) * 0.4
MidPoint(o, d) == <<o[1] + ((d[1] - o[1]) * 4) \div 10, o[2] + ((d[2] - o[2]) * 4) \div 10>>

simulateNewRoute(originLoc, destLoc) ==
  LET distance == calculateDistance(originLoc.coordinates, destLoc.coordinates)
  IN  [ name |-> "Recalculated Route",
        duration |-> ToString(RoundDiv(distance * 2, 1000)) \o " mins",
        distance |-> ToFixed1(distance) \o " miles",
        path |-> << originLoc.coordinates,
                    MidPoint(originLoc.coordinates, destLoc.coordinates),
                    destLoc.coordinates >> ]

-----------------------------------------------------------------------------
(* Initial state: the provider just mounted *)

\* the state after construction, for given settings and a given time since the
\* last distance alert
InitNavWith(voice, frequency, since) ==
  /\ isNavigating = FALSE
  /\ activeRoute = Null
  /\ origin = Null
  /\ destination = Null
  /\ currentPosition = Null
  /\ currentStep = Null
  /\ nextStep = Null
  /\ remainingDistance = ""
  /\ remainingTime = ""
  /\ progress = Num(0)
  /\ voiceEnabled = voice
  /\ distanceAlertFrequency = frequency
  /\ watchId = Null
  /\ lastVoiceAlert = ""
  /\ timeSinceLastAlert = since
  /\ simulationRef = Null
  /\ timers = EmptyBag
  /\ lastCall = [op |-> "mount", promise |-> "none"]
  /\ spoken = <<>>
  /\ events = <<>>
  /\ offRouteAlerts = 0
  /\ offRouteAlerted = FALSE
  /\ arrivedAlerts = 0
  /\ stopsScheduled = 0
  /\ upcomingAlerts = 0
  /\ prepareAlerts = 0
  /\ sinceDistanceAlert = since
  /\ eventCount = 0

InitNav == InitNavWith(TRUE, "medium", DistanceAlertGap)

InitFn ==
  /\ prevBearingIn = 0
  /\ bearingIn = 0
  /\ maneuverOut = ""
  /\ distanceIn = 0
  /\ instructionOut = ""
  /\ pathIn = <<>>
  /\ stepsOut = <<>>
  /\ called = FALSE

Init == InitNav /\ InitFn /\ routesOffered = StartInputs

\* the same provider where the route offered is the one that doubles back
InitTurn == InitNav /\ InitFn /\ routesOffered = TurnInputs

-----------------------------------------------------------------------------
(* After every event React renders again and MovementSimulator's effect      *)
(* (movement-simulator.tsx:15-36, dependencies isNavigating and activeRoute) *)
(* clears its interval and starts a new one over the new render.  routeSet   *)
(* tells that setActiveRoute was given a freshly built route object.         *)

\* the interval left running when navigation ends
SimulatorKeepsInterval(routeSet) ==
  simulationRef' =
    IF isNavigating' /\ activeRoute' # Null /\ Len(activeRoute'.path) > 1
    THEN Captured("updateUserPosition", Render')
    ELSE simulationRef

SimulatorEffect(routeSet) ==
  simulationRef' =
    IF ~routeSet /\ isNavigating' = isNavigating /\ activeRoute' = activeRoute
    THEN simulationRef
    ELSE IF isNavigating' /\ activeRoute' # Null /\ Len(activeRoute'.path) > 1
    THEN Captured("updateUserPosition", Render')
    ELSE Null

\* writes the refs, speech, events and timers a handler accumulated in e
Commit(e, call) ==
  /\ lastVoiceAlert' = e.lastVoiceAlert
  /\ timeSinceLastAlert' = e.timeSinceLastAlert
  /\ spoken' = e.spoken
  /\ events' = e.events
  /\ timers' = e.timers
  /\ sinceDistanceAlert' =
       IF \E i \in DOMAIN e.spoken : e.spoken[i] \in DistanceMessages
       THEN 0
       ELSE sinceDistanceAlert
  /\ lastCall' = call
  /\ eventCount' = eventCount + 1
  /\ UNCHANGED <<fnVars, routesOffered>>

Call(op, promise) == [op |-> op, promise |-> promise]

-----------------------------------------------------------------------------
(* Session lifecycle.  e0 holds the effects at the start of the event.      *)

\* lines 257-301, with startPositionTracking (336-384): the geolocation
\* callback registered here closes over the same render c
startNavigation(c, e0, route, originLoc, destLoc) ==
  \E steps \in {generateNavigationSteps(route.path)} :
  LET e1 == IF c.voiceEnabled
            THEN speak(e0, "Starting navigation. " \o route.distance
                         \o " to destination. Estimated arrival time: "
                         \o route.duration \o ".")
            ELSE e0
      e2 == emit(emit(e1, "Navigation Started"), "navigationStarted")
  IN  /\ activeRoute' = route
      /\ origin' = originLoc
      /\ destination' = destLoc
      /\ isNavigating' = TRUE
      /\ remainingDistance' = route.distance
      /\ remainingTime' = route.duration
      /\ progress' = Num(0)
      /\ currentStep' = IF Len(steps) > 0 THEN steps[1] ELSE currentStep
      /\ nextStep' = IF Len(steps) > 0
                     THEN (IF Len(steps) > 1 THEN steps[2] ELSE Null)
                     ELSE nextStep
      /\ watchId' = Captured("watchPosition", c)
      /\ Commit(e2, Call("startNavigation", "none"))
      /\ offRouteAlerts' = 0
      /\ offRouteAlerted' = FALSE
      /\ arrivedAlerts' = 0
      /\ stopsScheduled' = 0
      /\ upcomingAlerts' = 0
      /\ prepareAlerts' = 0
      /\ UNCHANGED <<currentPosition, voiceEnabled, distanceAlertFrequency>>
      /\ SimulatorEffect(FALSE)

\* lines 304-333
stopNavigation(c, e0) ==
  LET e1 == IF c.voiceEnabled THEN speak(e0, "Navigation stopped.") ELSE e0
      e2 == emit(emit(e1, "Navigation Stopped"), "navigationStopped")
  IN  /\ watchId' = Null
      /\ isNavigating' = FALSE
      /\ activeRoute' = Null
      /\ currentStep' = Null
      /\ nextStep' = Null
      /\ Commit(e2, Call("stopNavigation", "none"))
      /\ offRouteAlerts' = 0
      /\ offRouteAlerted' = FALSE
      /\ arrivedAlerts' = 0
      /\ stopsScheduled' = 0
      /\ upcomingAlerts' = 0
      /\ prepareAlerts' = 0
      /\ UNCHANGED <<origin, destination, currentPosition, remainingDistance,
                     remainingTime, progress, voiceEnabled,
                     distanceAlertFrequency>>
      /\ SimulatorEffect(FALSE)

\* the state every handler leaves alone when it returns at once
Untouched ==
  UNCHANGED <<isNavigating, activeRoute, origin, destination, currentPosition,
              currentStep, nextStep, remainingDistance, remainingTime, progress,
              voiceEnabled, distanceAlertFrequency, watchId, offRouteAlerts, offRouteAlerted,
                 arrivedAlerts, stopsScheduled, upcomingAlerts,
                 prepareAlerts>>

\* a failed precondition treated as the end of the session
recalculateMissingStops(c, e0) ==
  /\ isNavigating' = FALSE
  /\ activeRoute' = Null
  /\ currentStep' = Null
  /\ nextStep' = Null
  /\ Commit(e0, Call("recalculateRoute", "fulfilled"))
  /\ UNCHANGED <<origin, destination, currentPosition, remainingDistance,
                 remainingTime, progress, voiceEnabled, distanceAlertFrequency,
                 watchId, offRouteAlerts, offRouteAlerted,
                 arrivedAlerts, stopsScheduled, upcomingAlerts,
                 prepareAlerts>>
  /\ SimulatorEffect(FALSE)

\* line 638: the early return of the async function; its promise is
\* fulfilled with undefined
recalculateMissing(c, e0) ==
  /\ Untouched
  /\ Commit(e0, Call("recalculateRoute", "fulfilled"))
  /\ SimulatorEffect(FALSE)

\* lines 637-651: up to the await; the rest runs RecalcLatency ms later
recalculateRoute(c, e0) ==
  IF c.currentPosition = Null \/ c.destination = Null
  THEN recalculateMissing(c, e0)
  ELSE /\ Untouched
       /\ Commit(setTimeout(e0, "recalculateResume", c, RecalcLatency),
                 Call("recalculateRoute", "pending"))
       /\ SimulatorEffect(FALSE)

\* lines 653-695: after the await
recalculateResume(c, e0) ==
  \E newOrigin \in {[name |-> "Current Location", coordinates |-> c.currentPosition]} :
  \E newRoute \in {simulateNewRoute(newOrigin, c.destination)} :
  \E steps \in {generateNavigationSteps(newRoute.path)} :
  LET e1 == IF c.voiceEnabled
            THEN [ speak(e0, "Route recalculated. " \o newRoute.distance
                           \o " remaining. Estimated arrival in "
                           \o newRoute.duration \o ".")
                   EXCEPT !.lastVoiceAlert = "recalculated" ]
            ELSE e0
      e2 == emit(emit(e1, "Route Recalculated"), "routeRecalculated")
  IN  /\ activeRoute' = newRoute
      /\ origin' = newOrigin
      /\ currentStep' = IF Len(steps) > 0 THEN steps[1] ELSE currentStep
      /\ nextStep' = IF Len(steps) > 0
                     THEN (IF Len(steps) > 1 THEN steps[2] ELSE Null)
                     ELSE nextStep
      /\ remainingDistance' = newRoute.distance
      /\ remainingTime' = newRoute.duration
      /\ progress' = Num(0)
      /\ Commit(e2, Call("recalculateResume", "fulfilled"))
      /\ offRouteAlerts' = 0
      /\ offRouteAlerted' = FALSE
      /\ UNCHANGED <<arrivedAlerts, stopsScheduled>>
      /\ upcomingAlerts' = 0
      /\ prepareAlerts' = 0
      /\ UNCHANGED <<isNavigating, destination, currentPosition, voiceEnabled,
                     distanceAlertFrequency, watchId>>
      /\ SimulatorEffect(TRUE)

\* lines 716-722
toggleVoice(c, e0) ==
  /\ voiceEnabled' = ~voiceEnabled
  /\ Commit(IF ~c.voiceEnabled THEN speak(e0, "Voice guidance enabled.") ELSE e0,
            Call("toggleVoice", "none"))
  /\ UNCHANGED <<isNavigating, activeRoute, origin, destination, currentPosition,
                 currentStep, nextStep, remainingDistance, remainingTime, progress,
                 distanceAlertFrequency, watchId, offRouteAlerts, offRouteAlerted,
                 arrivedAlerts, stopsScheduled, upcomingAlerts,
                 prepareAlerts>>
  /\ SimulatorEffect(FALSE)

-----------------------------------------------------------------------------
(* Position updates *)

Range(q) == {q[i] : i \in DOMAIN q}

\* lines 819-833 (op = "updateUserPosition") and the watchPosition callback of
\* lines 353-362 (op = "watchPosition"), run over the render c
positionUpdate(c, e0, position, op) ==
  LET guided == c.isNavigating /\ c.activeRoute # Null
      observed == guided /\ c.activeRoute = activeRoute
      off == MinDistanceExceeds(c.activeRoute.path, position, OffRouteRadius)
  IN  \E r \in {IF guided THEN updateNavigationProgress(c, position, e0)
                 ELSE [e |-> e0]} :
      \E e2 \in {IF op = "updateUserPosition"
                  THEN emit(r.e, "userPositionUpdated") ELSE r.e} :
      /\ BagCardinality(e2.timers) <= MaxTimers
      /\ currentPosition' = position
      /\ remainingDistance' = IF guided THEN r.remainingDistance ELSE remainingDistance
      /\ remainingTime' = IF guided THEN r.remainingTime ELSE remainingTime
      /\ progress' = IF guided THEN r.progress ELSE progress
      /\ currentStep' = e2.currentStep
      /\ nextStep' = e2.nextStep
      /\ Commit(e2, Call(op, "none"))
      /\ offRouteAlerts' =
           IF ~observed THEN offRouteAlerts
           ELSE IF ~off THEN 0
           ELSE IF OffRouteMessage \in Range(e2.spoken)
           THEN Min(2, offRouteAlerts + 1)
           ELSE offRouteAlerts
      /\ offRouteAlerted' =
           (offRouteAlerted \/ (observed /\ OffRouteMessage \in Range(e2.spoken)))
      /\ arrivedAlerts' =
           IF observed /\ ArrivedMessage \in Range(e2.spoken)
           THEN Min(2, arrivedAlerts + 1)
           ELSE arrivedAlerts
      /\ stopsScheduled' =
           IF "Arrived!" \in Range(e2.events)
           THEN Min(2, stopsScheduled + 1)
           ELSE stopsScheduled
      /\ upcomingAlerts' =
           IF nextStep' # nextStep THEN 0
           ELSE IF /\ guided
                   /\ c.nextStep # Null
                   /\ c.nextStep = nextStep
                   /\ ("In 0.2 miles, " \o c.nextStep.instruction) \in Range(e2.spoken)
           THEN Min(2, upcomingAlerts + 1)
           ELSE upcomingAlerts
      /\ prepareAlerts' =
           IF nextStep' # nextStep THEN 0
           ELSE IF /\ guided
                   /\ c.nextStep # Null
                   /\ c.nextStep = nextStep
                   /\ ("In half a mile, " \o c.nextStep.instruction) \in Range(e2.spoken)
           THEN Min(2, prepareAlerts + 1)
           ELSE prepareAlerts
      /\ UNCHANGED <<isNavigating, activeRoute, origin, destination, voiceEnabled,
                     distanceAlertFrequency, watchId>>
      /\ SimulatorEffect(FALSE)

-----------------------------------------------------------------------------
(* Events *)

\* events are explored up to MaxEvents from the mount
WithinBudget == eventCount < MaxEvents

\* NavigationInterface renders its buttons only while navigating
\* (src/unnamed/part_003:424-426)
InterfaceShown == WithinBudget /\ isNavigating /\ activeRoute # Null

\* MapView starts navigation on the selected route (src/unnamed/part_002:481)
StartNavigation ==
  /\ WithinBudget
  /\ \E i \in routesOffered :
       \E c \in {Render}, e0 \in {Effects(timers)} :
         startNavigation(c, e0, i.route, i.origin, i.destination)

\* the stop button (src/unnamed/part_003:525)
StopNavigation ==
  /\ InterfaceShown
  /\ \E c \in {Render}, e0 \in {Effects(timers)} : stopNavigation(c, e0)

\* the recalculate button (src/unnamed/part_003:560)
RecalculateRoute ==
  /\ InterfaceShown
  /\ BagCardinality(timers) < MaxTimers
  /\ \E c \in {Render}, e0 \in {Effects(timers)} : recalculateRoute(c, e0)

\* the voice buttons (src/unnamed/part_003:477, 519)
ToggleVoice ==
  /\ InterfaceShown
  /\ \E c \in {Render}, e0 \in {Effects(timers)} : toggleVoice(c, e0)

\* the alert-frequency selector (src/unnamed/part_003:495)
SetDistanceAlertFrequency ==
  /\ InterfaceShown
  /\ \E f \in Frequencies \ {distanceAlertFrequency} :
       distanceAlertFrequency' = f
  /\ \E e0 \in {Effects(timers)} :
       Commit(e0, Call("setDistanceAlertFrequency", "none"))
  /\ UNCHANGED <<isNavigating, activeRoute, origin, destination, currentPosition,
                 currentStep, nextStep, remainingDistance, remainingTime, progress,
                 voiceEnabled, watchId, offRouteAlerts, offRouteAlerted,
                 arrivedAlerts, stopsScheduled, upcomingAlerts,
                 prepareAlerts>>
  /\ SimulatorEffect(FALSE)

\* a consumer of the context calls updateUserPosition of the latest render
UpdateUserPosition ==
  /\ WithinBudget
  /\ \E p \in Positions, c \in {Render}, e0 \in {Effects(timers)} :
       positionUpdate(c, e0, p, "updateUserPosition")

\* a point strictly inside a segment of the path (movement-simulator.tsx:83-90)
OnSegment(path, p) ==
  \E i \in 1..(Len(path) - 1) :
    \/ path[i][2] < p[2] /\ p[2] < path[i + 1][2]
    \/ path[i + 1][2] < p[2] /\ p[2] < path[i][2]

\* one tick of MovementSimulator's interval: it calls the updateUserPosition
\* of the render its effect ran in
SimulatorTick ==
  /\ WithinBudget
  /\ simulationRef # Null
  /\ \E p \in Positions, e0 \in {Effects(timers)} :
       /\ OnSegment(simulationRef.activeRoute.path, p)
       /\ positionUpdate(simulationRef, e0, p, "updateUserPosition")

\* the geolocation success callback registered by startPositionTracking
WatchPosition ==
  /\ WithinBudget
  /\ watchId # Null
  /\ \E p \in Positions, e0 \in {Effects(timers)} :
       positionUpdate(watchId, e0, p, "watchPosition")

\* a setTimeout callback runs: the delayed stop (lines 436-438), the automatic
\* recalculation (630-632) or the continuation of recalculateRoute (651)
FireTimer ==
  /\ WithinBudget
  /\ \E t \in BagToSet(timers) :
       \E e0 \in {Effects(timers (-) SetToBag({t}))} :
         CASE t.kind = "stopNavigation" -> stopNavigation(t.c, e0)
           [] t.kind = "recalculateRoute" -> recalculateRoute(t.c, e0)
           [] OTHER -> recalculateResume(t.c, e0)

\* ClockStep ms pass with no event
Advance ==
  /\ WithinBudget
  /\ timers = EmptyBag
  /\ timeSinceLastAlert < DistanceAlertGap
  /\ timeSinceLastAlert' = Min(DistanceAlertGap, timeSinceLastAlert + ClockStep)
  /\ sinceDistanceAlert' = Min(DistanceAlertGap, sinceDistanceAlert + ClockStep)
  /\ eventCount' = eventCount + 1
  /\ lastCall' = [op |-> "advance", promise |-> "none"]
  /\ spoken' = <<>>
  /\ events' = <<>>
  /\ UNCHANGED <<isNavigating, activeRoute, origin, destination, currentPosition,
                 currentStep, nextStep, remainingDistance, remainingTime, progress,
                 voiceEnabled, distanceAlertFrequency, watchId, lastVoiceAlert,
                 simulationRef, timers, offRouteAlerts, offRouteAlerted,
                 arrivedAlerts, stopsScheduled, upcomingAlerts,
                 prepareAlerts>>
  /\ UNCHANGED <<fnVars, routesOffered>>

Next ==
  \/ StartNavigation
  \/ StopNavigation
  \/ RecalculateRoute
  \/ ToggleVoice
  \/ SetDistanceAlertFrequency
  \/ UpdateUserPosition
  \/ SimulatorTick
  \/ WatchPosition
  \/ FireTimer
  \/ Advance

Spec == Init /\ [][Next]_vars

SpecTurn == InitTurn /\ [][Next]_vars

\* the event loop runs every setTimeout callback that is due; nothing obliges
\* the user or the position sources to act
SpecFair == Init /\ [][Next]_vars /\ WF_vars(FireTimer)

-----------------------------------------------------------------------------
(* The maneuver classification applied to any two bearings                  *)

\* bearings as calculateBearing returns them, (theta + 360) % 360, sampled
Bearings == {b \in 0..359 : b % BearingStep = 0}

InitManeuver ==
  /\ InitNav
  /\ routesOffered = {}
  /\ prevBearingIn \in Bearings
  /\ bearingIn \in Bearings
  /\ maneuverOut = ""
  /\ distanceIn = 0
  /\ instructionOut = ""
  /\ pathIn = <<>>
  /\ stepsOut = <<>>
  /\ called = FALSE

Classify ==
  /\ ~called
  /\ called' = TRUE
  /\ maneuverOut' = ManeuverOf(prevBearingIn, bearingIn)
  /\ UNCHANGED <<prevBearingIn, bearingIn, pathIn, stepsOut, distanceIn,
                 instructionOut>>
  /\ UNCHANGED <<navVars, routesOffered>>

SpecManeuver == InitManeuver /\ [][Classify]_vars

-----------------------------------------------------------------------------
(* generateTurnInstruction applied to any previous bearing (Null for the    *)
(* first segment, else <<b>>), bearing and segment length                   *)

\* segment lengths in 1/1000 mile
Distances == {0, 440, 1260}

InitInstruction ==
  /\ InitNav
  /\ routesOffered = {}
  /\ prevBearingIn \in {Null} \cup {<<b>> : b \in Bearings}
  /\ bearingIn \in Bearings
  /\ distanceIn \in Distances
  /\ instructionOut = ""
  /\ maneuverOut = ""
  /\ pathIn = <<>>
  /\ stepsOut = <<>>
  /\ called = FALSE

Instruct ==
  /\ ~called
  /\ called' = TRUE
  /\ instructionOut' = generateTurnInstruction(prevBearingIn, bearingIn, distanceIn)
  /\ UNCHANGED <<prevBearingIn, bearingIn, maneuverOut, pathIn, stepsOut,
                 distanceIn>>
  /\ UNCHANGED <<navVars, routesOffered>>

SpecInstruction == InitInstruction /\ [][Instruct]_vars

-----------------------------------------------------------------------------
(* checkDistanceAnnouncement applied to any remaining distance              *)

\* remaining distances in 1/1000 mile, on a grid of 0.02 miles
Remaining == {20 * k : k \in 0..MaxRemaining}

InitAnnounce ==
  /\ \E voice \in BOOLEAN, frequency \in Frequencies,
        since \in {0, DistanceAlertGap} :
       InitNavWith(voice, frequency, since)
  /\ routesOffered = {}
  /\ distanceIn \in Remaining
  /\ prevBearingIn = 0
  /\ bearingIn = 0
  /\ instructionOut = ""
  /\ maneuverOut = ""
  /\ pathIn = <<>>
  /\ stepsOut = <<>>
  /\ called = FALSE

Announce ==
  /\ ~called
  /\ called' = TRUE
  /\ \E e \in {checkDistanceAnnouncement(Render, distanceIn, Effects(timers))} :
       /\ spoken' = e.spoken
       /\ lastVoiceAlert' = e.lastVoiceAlert
       /\ timeSinceLastAlert' = e.timeSinceLastAlert
       /\ sinceDistanceAlert' = IF e.spoken # <<>> THEN 0 ELSE sinceDistanceAlert
  /\ UNCHANGED <<isNavigating, activeRoute, origin, destination,
                 currentPosition, currentStep, nextStep, remainingDistance,
                 remainingTime, progress, voiceEnabled,
                 distanceAlertFrequency, watchId, simulationRef, timers,
                 lastCall, events, offRouteAlerts, offRouteAlerted, arrivedAlerts,
                 stopsScheduled, upcomingAlerts, prepareAlerts, eventCount>>
  /\ UNCHANGED <<prevBearingIn, bearingIn, maneuverOut, pathIn, stepsOut,
                 distanceIn, instructionOut, routesOffered>>

SpecAnnounce == InitAnnounce /\ [][Announce]_vars

-----------------------------------------------------------------------------
(* generateDetailedNavigationSteps applied to any path                      *)

RECURSIVE PathsOfLen(_)
PathsOfLen(n) ==
  IF n = 0 THEN {<<>>}
  ELSE {Append(q, p) : q \in PathsOfLen(n - 1), p \in PathPoints}

Paths == UNION {PathsOfLen(n) : n \in 0..MaxPathLen}

InitSteps ==
  /\ InitNav
  /\ routesOffered = {}
  /\ pathIn \in Paths
  /\ stepsOut = <<>>
  /\ prevBearingIn = 0
  /\ bearingIn = 0
  /\ maneuverOut = ""
  /\ distanceIn = 0
  /\ instructionOut = ""
  /\ called = FALSE

GenerateSteps ==
  /\ ~called
  /\ called' = TRUE
  /\ stepsOut' = generateDetailedNavigationSteps(pathIn)
  /\ UNCHANGED <<prevBearingIn, bearingIn, maneuverOut, pathIn, distanceIn,
                 instructionOut>>
  /\ UNCHANGED <<navVars, routesOffered>>

SpecSteps == InitSteps /\ [][GenerateSteps]_vars

-----------------------------------------------------------------------------
(* Properties of the session (Spec) *)

\* C1: once stopNavigation has run the session stays idle with no active
\* route and no current or next step until the next startNavigation, whatever
\* timer or recalculation was pending at the stop.  isNavigating is false only
\* before the first start and between a stop and the next start
C1_IdleSessionHasNoRoute ==
  ~isNavigating =>
    /\ activeRoute = Null
    /\ currentStep = Null
    /\ nextStep = Null

\* C2: in every reachable state progress is a number between 0 and 100
C2_ProgressWithinPercent ==
  /\ ~progress.nan
  /\ 0 <= progress.v
  /\ progress.v <= 100

\* the session state recalculateRoute may write
SessionFields ==
  <<isNavigating, activeRoute, origin, destination, currentPosition, currentStep,
    nextStep, remainingDistance, remainingTime, progress, lastVoiceAlert,
    timeSinceLastAlert, watchId>>

\* C6: recalculateRoute run while the current position or the destination is
\* unknown changes no session field, speaks nothing, emits no event (so no
\* routeRecalculated) and starts no timer.  The case is taken whenever the
\* live position or destination is null (a closure never holds a position
\* the live state lacks), and it is the only way the call settles at once
C6_RecalculateWithoutPositionChangesNothing ==
  [][ (lastCall'.op = "recalculateRoute" /\ eventCount' # eventCount) =>
        /\ (currentPosition = Null \/ destination = Null)
             => lastCall'.promise = "fulfilled"
        /\ lastCall'.promise = "fulfilled" =>
             /\ UNCHANGED SessionFields
             /\ spoken' = <<>>
             /\ events' = <<>>
             /\ \A t \in BagToSet(timers') : CopiesIn(t, timers') <= CopiesIn(t, timers)
    ]_vars

\* C6: navigation is running, no position has been reported yet, and
\* recalculateRoute has just returned at its first line
C6_RecalculatedWithoutPosition ==
  /\ lastCall = Call("recalculateRoute", "fulfilled")
  /\ isNavigating
  /\ activeRoute = RouteA
  /\ currentPosition = Null
  /\ currentStep # Null

\* C7: recalculateRoute called with the current position or the destination
\* missing returns a promise that is rejected
C7_RecalculateWithoutPositionRejects ==
  (lastCall.op = "recalculateRoute" /\ (currentPosition = Null \/ destination = Null))
    => lastCall.promise = "rejected"

\* C8: stopNavigation clears the steps, the position subscription and every
\* session field: active route, current and next step, current position,
\* remaining distance and time, progress, the last spoken-alert key and the
\* last distance-alert timestamp are back at their initial values
C8_StopClearsEverySessionField ==
  lastCall.op = "stopNavigation" =>
    /\ ~isNavigating
    /\ watchId = Null
    /\ activeRoute = Null
    /\ currentStep = Null
    /\ nextStep = Null
    /\ currentPosition = Null
    /\ remainingDistance = ""
    /\ remainingTime = ""
    /\ progress = Num(0)
    /\ lastVoiceAlert = ""
    /\ timeSinceLastAlert = DistanceAlertGap

\* C9: a position update that arrives while the session is idle, from any
\* position source, changes nothing of the guidance: remaining distance and
\* time, progress, route and steps stay as they are, nothing is spoken, no
\* timer is started and the alert refs are untouched; right after a stop no
\* route or step is held
C9_IdlePositionUpdateIsNoOp ==
  [][ (/\ ~isNavigating
       /\ lastCall'.op \in {"updateUserPosition", "watchPosition"}
       /\ eventCount' # eventCount) =>
        /\ UNCHANGED <<isNavigating, activeRoute, currentStep, nextStep,
                       remainingDistance, remainingTime, progress,
                       lastVoiceAlert, timeSinceLastAlert, timers>>
        /\ spoken' = <<>>
        /\ \A i \in DOMAIN events' : events'[i] = "userPositionUpdated"
        /\ lastCall.op = "stopNavigation" =>
             (activeRoute' = Null /\ currentStep' = Null /\ nextStep' = Null)
    ]_vars

\* C9: a session was started and stopped, and a position has been reported
\* to the idle session
C9_PositionReportedWhileIdle ==
  /\ ~isNavigating
  /\ lastCall.op = "updateUserPosition"
  /\ currentPosition # Null
  /\ destination # Null
  /\ activeRoute = Null
  /\ remainingDistance = RouteA.distance

\* C10: while consecutive position updates stay farther than 0.1 miles from
\* every point of the active route, the off-route alert is spoken once for the
\* episode, whatever other alerts are spoken in between
C10_OffRouteAlertOncePerEpisode ==
  offRouteAlerts <= 1

\* C11: within one navigation session the arrival alert is spoken at most
\* once and at most one delayed stop is scheduled, however many position
\* updates arrive within the arrival radius
C11_ArrivalOncePerSession ==
  /\ arrivedAlerts <= 1
  /\ stopsScheduled <= 1

\* C12: whatever the frequency setting and the position updates, a distance
\* alert is spoken only when at least 30000 ms have passed since the previous
\* distance alert (or there was none), and one event speaks at most one
C12_DistanceAlertsThirtySecondsApart ==
  [][ \A i \in DOMAIN spoken' :
        (eventCount' # eventCount /\ spoken'[i] \in DistanceMessages) =>
          /\ sinceDistanceAlert >= DistanceAlertGap
          /\ \A j \in DOMAIN spoken' :
               spoken'[j] \in DistanceMessages => j = i
    ]_vars

\* a position update half a mile from the destination, at the medium
\* setting with voice on, that spoke no distance alert because the previous
\* one is less than 30000 ms old
C12_DistanceAlertHeldBack ==
  /\ lastCall.op = "updateUserPosition"
  /\ isNavigating
  /\ activeRoute = RouteA
  /\ destination # Null
  /\ destination.coordinates = P(1000)
  /\ currentPosition = P(520)
  /\ voiceEnabled
  /\ distanceAlertFrequency = "medium"
  /\ sinceDistanceAlert < DistanceAlertGap
  /\ \A i \in DOMAIN spoken : spoken[i] \notin DistanceMessages

\* C13: whenever a route is active, the current step and the next step are
\* anchored at points of that route's path, also while a recalculation is in
\* flight and after a start on a route whose path has fewer than two points
C13_StepsBelongToActiveRoute ==
  activeRoute # Null =>
    /\ currentStep # Null => currentStep.coordinates \in Range(activeRoute.path)
    /\ nextStep # Null => nextStep.coordinates \in Range(activeRoute.path)

\* C14: right after startNavigation(route, origin, destination), whatever the
\* session was before, the session is navigating on that route with progress
\* 0, the route's distance and duration as remaining distance and time, the
\* first generated step of the route's path as current step and the second
\* as next step (none where the path gives none)
C14_StartInitialisesSession ==
  lastCall.op = "startNavigation" =>
    LET steps == generateNavigationSteps(activeRoute.path)
    IN  /\ isNavigating
        /\ progress = Num(0)
        /\ remainingDistance = activeRoute.distance
        /\ remainingTime = activeRoute.duration
        /\ currentStep = IF Len(steps) > 0 THEN steps[1] ELSE Null
        /\ nextStep = IF Len(steps) > 1 THEN steps[2] ELSE Null

\* C15: when a recalculation completes, the active route is a new route of
\* three points (the current position, the point 40% of the way from it to
\* the destination, the destination), the current and next step are the
\* first two steps generated from that path, progress is 0 and the remaining
\* distance and time are the new route's totals
C15_RecalculatedRouteStartsAtCurrentPosition ==
  lastCall.op = "recalculateResume" =>
    LET steps == generateNavigationSteps(activeRoute.path)
    IN  /\ activeRoute.path =
             << currentPosition,
                MidPoint(currentPosition, destination.coordinates),
                destination.coordinates >>
        /\ currentStep = steps[1]
        /\ nextStep = steps[2]
        /\ progress = Num(0)
        /\ remainingDistance = activeRoute.distance
        /\ remainingTime = activeRoute.duration

\* C16: during a navigation session at most one position source is active:
\* the geolocation watch and the simulator's interval are never both
\* registered to deliver positions to the tracker
C16_OnePositionSourceActive ==
  isNavigating => (watchId = Null \/ simulationRef = Null)

\* C17: at the medium setting no distance alert is spoken before 30000 ms
\* have passed since startNavigation: the position update that directly
\* follows the start, with no time passed in between, speaks no distance
\* alert, also when the remaining distance is near a whole or half mile
C17_NoDistanceAlertRightAfterStart ==
  [][ (/\ lastCall.op = "startNavigation"
       /\ lastCall'.op \in {"updateUserPosition", "watchPosition"}
       /\ eventCount' # eventCount
       /\ distanceAlertFrequency = "medium") =>
        \A i \in DOMAIN spoken' : spoken'[i] \notin DistanceMessages
    ]_vars

\* C20: on a position update while navigating, when the path point closest
\* to the position is the immediate successor of the point that anchors the
\* current step, the current step becomes the step anchored at that closest
\* point and the next step the one anchored at the point after it (none when
\* the closest point is the last of the path); this for every closest point
\* from the second of the path up to and including the last
C20_StepAdvancesToClosestPoint ==
  [][ (/\ isNavigating
       /\ activeRoute # Null
       /\ currentStep # Null
       /\ lastCall'.op = "updateUserPosition"
       /\ eventCount' # eventCount
       /\ ClosestPointIndex(activeRoute.path, currentPosition') > 1
       /\ currentStep.coordinates =
            activeRoute.path[ClosestPointIndex(activeRoute.path, currentPosition') - 1]) =>
        LET k == ClosestPointIndex(activeRoute.path, currentPosition')
        IN  /\ currentStep' # Null
            /\ currentStep'.coordinates = activeRoute.path[k]
            /\ IF k < Len(activeRoute.path)
               THEN /\ nextStep' # Null
                    /\ nextStep'.coordinates = activeRoute.path[k + 1]
               ELSE nextStep' = Null
    ]_vars

\* C21: a delayed stop scheduled on arrival in one session never touches a
\* later session: when the callback fires in a session in which no arrival
\* was reported (the session it came from was stopped or replaced by a new
\* startNavigation in the meantime), that session is still navigating on its
\* route afterwards
C21_OldArrivalStopSparesNewSession ==
  [][ (/\ isNavigating
       /\ stopsScheduled = 0
       /\ lastCall'.op = "stopNavigation"
       /\ BagCardinality(timers') < BagCardinality(timers)) =>
        /\ isNavigating'
        /\ activeRoute' = activeRoute
    ]_vars

\* C22: for one upcoming turn (the next step, neither straight nor arrive)
\* the "In half a mile" alert and the "In 0.2 miles" alert are each spoken
\* at most once, however many position updates arrive within those
\* distances of its anchor
C22_TurnAlertsOncePerStep ==
  /\ upcomingAlerts <= 1
  /\ prepareAlerts <= 1

\* C25: after an off-route alert of the session, when an update has found the
\* position back within 0.1 miles of the path and the next update finds it
\* more than 0.1 miles from the path again, that update speaks a new
\* off-route alert
C25_NewOffRouteEpisodeAlertsAgain ==
  [][ (/\ isNavigating
       /\ activeRoute # Null
       /\ destination # Null
       /\ voiceEnabled
       /\ offRouteAlerted
       /\ lastCall.op = "updateUserPosition"
       /\ currentPosition # Null
       /\ ~MinDistanceExceeds(activeRoute.path, currentPosition, OffRouteRadius)
       /\ lastCall'.op = "updateUserPosition"
       /\ MinDistanceExceeds(activeRoute.path, currentPosition', OffRouteRadius)) =>
        OffRouteMessage \in Range(spoken')
    ]_vars

\* the pending timers of one kind
Pending(ts, kind) ==
  BagCardinality([t \in {u \in BagToSet(ts) : u.kind = kind} |-> CopiesIn(t, ts)])

\* C26: an off-route episode starts one automatic recalculation: when an
\* update has found the position off route and the next update finds it off
\* route again, no further automatic recalculation is scheduled
C26_OneRecalculationPerEpisode ==
  [][ (/\ isNavigating
       /\ activeRoute # Null
       /\ destination # Null
       /\ lastCall.op = "updateUserPosition"
       /\ "Off Route" \in Range(events)
       /\ Pending(timers, "recalculateRoute") > 0
       /\ lastCall'.op = "updateUserPosition"
       /\ MinDistanceExceeds(activeRoute.path, currentPosition', OffRouteRadius)) =>
        Pending(timers', "recalculateRoute") <= Pending(timers, "recalculateRoute")
    ]_vars

C28_StartBeginsFreshSession ==
  [][ (/\ lastCall.op = "startNavigation"
       /\ isNavigating
       /\ activeRoute # Null
       /\ destination # Null
       /\ voiceEnabled
       /\ lastCall'.op = "updateUserPosition") =>
        /\ calculateDistance(currentPosition', destination.coordinates) < ArrivalRadius
             => ArrivedMessage \in Range(spoken')
        /\ MinDistanceExceeds(activeRoute.path, currentPosition', OffRouteRadius)
             => OffRouteMessage \in Range(spoken')
    ]_vars

\* the announcements "In {distance}, {instruction}" of the turn steps of a path
TurnAnnouncements(path) ==
  With(generateNavigationSteps(path), LAMBDA steps :
    {"In " \o steps[i].distance \o ", " \o steps[i].instruction :
       i \in {j \in DOMAIN steps : IsTurn(steps[j].maneuver)}})

AnchorIndex(path, step) ==
  IF \E i \in DOMAIN path : path[i] = step.coordinates
  THEN CHOOSE i \in DOMAIN path :
         /\ path[i] = step.coordinates
         /\ \A j \in 1..(i - 1) : path[j] # step.coordinates
  ELSE 0

\* C30: between starts and recalculations the current step never moves
\* backward: on a position update that leaves the route as it is, the path
\* index of the point that anchors the current step does not decrease
C30_StepNeverMovesBackward ==
  [][ (/\ isNavigating
       /\ activeRoute # Null
       /\ activeRoute' = activeRoute
       /\ currentStep # Null
       /\ currentStep' # Null
       /\ lastCall'.op \in {"updateUserPosition", "watchPosition"}) =>
        AnchorIndex(activeRoute.path, currentStep')
          >= AnchorIndex(activeRoute.path, currentStep)
    ]_vars

-----------------------------------------------------------------------------
(* Properties of the maneuver classification (SpecManeuver) *)

\* the signed turn angle, bearing - prevBearing brought into (-180, 180]
Delta(prevBearing, bearing) ==
  LET a == bearing - prevBearing
  IN  IF a > 180 THEN a - 360 ELSE IF a <= -180 THEN a + 360 ELSE a

\* C3: a turn angle of more than 170 degrees either way classifies the step
\* as uturn, ahead of sharp-right and sharp-left
C3_UturnBeyond170 ==
  (called /\ Abs(Delta(prevBearingIn, bearingIn)) > 170) => maneuverOut = "uturn"

\* C4: a turn angle above 100 degrees that is no uturn classifies as
\* sharp-right and one below -100 as sharp-left; angles in (30, 100] give
\* right and angles in [-100, -30) give left
C4_SharpBeyond100 ==
  called =>
    LET d == Delta(prevBearingIn, bearingIn)
    IN  /\ (100 < d /\ d <= 170) => maneuverOut = "sharp-right"
        /\ (-170 <= d /\ d < -100) => maneuverOut = "sharp-left"
        /\ (30 < d /\ d <= 100) => maneuverOut = "right"
        /\ (-100 <= d /\ d < -30) => maneuverOut = "left"

\* C18: the maneuver depends only on the turn angle brought into (-180, 180],
\* also when the raw difference of the bearings wraps around north (350 then
\* 10 is a turn of +20): up to 10 degrees either way gives straight, (10, 30]
\* slight-right, [-30, -10) slight-left, (30, 100] right, [-100, -30) left
C18_ManeuverFollowsNormalizedAngle ==
  called =>
    LET d == Delta(prevBearingIn, bearingIn)
    IN  /\ Abs(d) <= 10 => maneuverOut = "straight"
        /\ (10 < d /\ d <= 30) => maneuverOut = "slight-right"
        /\ (-30 <= d /\ d < -10) => maneuverOut = "slight-left"
        /\ (30 < d /\ d <= 100) => maneuverOut = "right"
        /\ (-100 <= d /\ d < -30) => maneuverOut = "left"

-----------------------------------------------------------------------------
(* Properties of the instruction text (SpecInstruction) *)

\* the compass label of a bearing in [0, 360): eight sectors of 45 degrees
\* centred on north, northeast, ..., northwest
CompassLabel(bearing) ==
  IF 2 * bearing < 45 THEN "north"
  ELSE IF 2 * bearing < 135 THEN "northeast"
  ELSE IF 2 * bearing < 225 THEN "east"
  ELSE IF 2 * bearing < 315 THEN "southeast"
  ELSE IF 2 * bearing < 405 THEN "south"
  ELSE IF 2 * bearing < 495 THEN "southwest"
  ELSE IF 2 * bearing < 585 THEN "west"
  ELSE IF 2 * bearing < 675 THEN "northwest"
  ELSE "north"

\* the text the instruction rule gives for a turn of d degrees (Null for the
\* first step) onto a segment of the given bearing and length
InstructionFor(d, bearing, distance) ==
  LET miles == ToFixed1(distance) \o " miles"
      side == IF d[1] > 0 THEN "right" ELSE "left"
      sharpness == IF Abs(d[1]) < 60 THEN "slight "
                   ELSE IF Abs(d[1]) < 120 THEN ""
                   ELSE "sharp "
  IN  IF d = Null THEN "Head " \o CompassLabel(bearing) \o " for " \o miles
      ELSE IF Abs(d[1]) < 20 THEN "Continue straight for " \o miles
      ELSE "Turn " \o sharpness \o side \o " and continue for " \o miles

-----------------------------------------------------------------------------
(* Properties of generateDetailedNavigationSteps (SpecSteps) *)

\* C5: a path of fewer than 2 points gives no step; any other path gives as
\* many steps as it has points: one travel step per point but the last, in
\* order and anchored at that point, none of them an arrive step, and then one
\* arrive step "Arrive at your destination", "0 miles", anchored at the last
\* point
C5_OneStepPerPointEndingInArrive ==
  called =>
    IF Len(pathIn) < 2 THEN stepsOut = <<>>
    ELSE /\ Len(stepsOut) = Len(pathIn)
         /\ \A i \in 1..(Len(pathIn) - 1) :
              /\ stepsOut[i].coordinates = pathIn[i]
              /\ stepsOut[i].maneuver # "arrive"
         /\ stepsOut[Len(pathIn)].maneuver = "arrive"
         /\ stepsOut[Len(pathIn)].instruction = "Arrive at your destination"
         /\ stepsOut[Len(pathIn)].distance = "0 miles"
         /\ stepsOut[Len(pathIn)].coordinates = pathIn[Len(pathIn)]

\* C5: the steps of a path whose first two points are equal
C5_StepsOfPathWithRepeatedPoint ==
  /\ called
  /\ Len(pathIn) = 3
  /\ pathIn[1] = pathIn[2]
  /\ Len(stepsOut) = 3
  /\ stepsOut[1].distance = "0.0 miles"
  /\ stepsOut[3].maneuver = "arrive"

-----------------------------------------------------------------------------
(* Properties of the distance announcement (SpecAnnounce) *)

\* the distance d is within 0.05 miles of a multiple of m
WithinOfBoundary(d, m) ==
  \E k \in 0..(d \div m + 1) : Abs(d - k * m) < AlertTolerance

\* C23: with frequency "high", voice on and the 30 seconds elapsed, a distance
\* alert is spoken exactly when the remaining distance is within 0.05 miles of
\* a half-mile boundary if it is at most 5 miles, and exactly when it is
\* within 0.05 miles of a whole-mile boundary if it is above 5 miles (no alert
\* at 7.5 miles).
C23_HighFrequencyBoundaries ==
  [][ (/\ ~called
       /\ called'
       /\ voiceEnabled
       /\ distanceAlertFrequency = "high"
       /\ timeSinceLastAlert >= DistanceAlertGap) =>
        (spoken' # <<>> <=>
           IF distanceIn <= 5000
           THEN WithinOfBoundary(distanceIn, 500)
           ELSE WithinOfBoundary(distanceIn, 1000))
    ]_vars

\* C24: with frequency "medium", voice on and the 30 seconds elapsed, a
\* distance alert is spoken exactly when the remaining distance is within 0.05
\* miles of a whole-mile boundary, or is at most 3 miles and within 0.05 miles
\* of a half-mile boundary.
C24_MediumFrequencyBoundaries ==
  [][ (/\ ~called
       /\ called'
       /\ voiceEnabled
       /\ distanceAlertFrequency = "medium"
       /\ timeSinceLastAlert >= DistanceAlertGap) =>
        (spoken' # <<>> <=>
           \/ WithinOfBoundary(distanceIn, 1000)
           \/ /\ distanceIn <= 3000
              /\ WithinOfBoundary(distanceIn, 500))
    ]_vars

\* a half-mile boundary below 3 miles is announced under "medium"
C24_HalfMileAnnouncedBelowThreeMiles ==
  /\ called
  /\ voiceEnabled
  /\ distanceAlertFrequency = "medium"
  /\ distanceIn = 2480
  /\ spoken = <<"2.5 miles remaining to your destination.">>

====
